---------------------------- MODULE Spec2Model ----------------------------
(***************************************************************************)
(* simple-google-mcp/main.py: a FastAPI relay with two routes.             *)
(*   POST /gdrive/list_files  list_drive_files (+ get_credentials_from_-   *)
(*                            request)                                     *)
(*   GET  /health             health_check                                 *)
(* Python strings that the code inspects (the Authorization header, the    *)
(* token, the environment values) are sequences of one-character strings;  *)
(* strings the code only passes on (details, scope URLs) are TLA+ strings. *)
(* A Python dict is a function whose DOMAIN is the dict's key set.         *)
(***************************************************************************)
EXTENDS Naturals, Sequences, FiniteSets

\* Number of POST /gdrive/list_files requests in flight in one behaviour.
MaxRequests == 2

Requests == 1..MaxRequests

---------------------------------------------------------------------------
\* Python values

\* None, and a value that is not None.
None == [isNone |-> TRUE]
Some(v) == [isNone |-> FALSE, v |-> v]

\* Python truthiness of an optional string: `not x` is ~Truthy(x).
Truthy(x) == ~x.isNone /\ x.v # <<>>

\* dict.get(key) and dict.get(key, default)
Get(d, key) == IF key \in DOMAIN d THEN Some(d[key]) ELSE None
GetDefault(d, key, default) == IF key \in DOMAIN d THEN d[key] ELSE default

UpperChars == <<"A","B","C","D","E","F","G","H","I","J","K","L","M",
                "N","O","P","Q","R","S","T","U","V","W","X","Y","Z">>
LowerChars == <<"a","b","c","d","e","f","g","h","i","j","k","l","m",
                "n","o","p","q","r","s","t","u","v","w","x","y","z">>

\* str.lower(), one character
LowerChar(c) ==
    IF \E i \in DOMAIN UpperChars : UpperChars[i] = c
    THEN LowerChars[CHOOSE i \in DOMAIN UpperChars : UpperChars[i] = c]
    ELSE c

\* str.lower()
Lower(s) == [i \in DOMAIN s |-> LowerChar(s[i])]

\* str.startswith(prefix)
StartsWith(s, prefix) ==
    /\ Len(s) >= Len(prefix)
    /\ SubSeq(s, 1, Len(prefix)) = prefix

\* Index of the first occurrence of the character sep in s, 0 when absent.
Find(s, sep) ==
    IF \E i \in DOMAIN s : s[i] = sep
    THEN CHOOSE i \in DOMAIN s : s[i] = sep /\ \A j \in 1..(i - 1) : s[j] # sep
    ELSE 0

\* str.split(sep, maxsplit) for a one-character sep: the list of parts.
RECURSIVE Split(_, _, _)
Split(s, sep, maxsplit) ==
    LET i == Find(s, sep) IN
    IF maxsplit = 0 \/ i = 0
    THEN <<s>>
    ELSE <<SubSeq(s, 1, i - 1)>> \o Split(SubSeq(s, i + 1, Len(s)), sep, maxsplit - 1)

\* Python list indexing, 0-based: parts[k]
Index(parts, k) == parts[k + 1]

---------------------------------------------------------------------------
\* Module constants of main.py

GoogleAuth(name) == "https://www.googleapis.com/auth/" \o name

\* SCOPES with its last entry missing
SCOPES_Short ==
    << GoogleAuth("userinfo.email"), "openid",
       GoogleAuth("calendar.readonly"), GoogleAuth("calendar.events"),
       GoogleAuth("drive.readonly"), GoogleAuth("drive.file"),
       GoogleAuth("gmail.readonly"), GoogleAuth("gmail.send"),
       GoogleAuth("gmail.compose"), GoogleAuth("gmail.modify"),
       GoogleAuth("gmail.labels"),
       GoogleAuth("documents.readonly"), GoogleAuth("documents"),
       GoogleAuth("chat.messages.readonly"), GoogleAuth("chat.spaces.readonly"),
       GoogleAuth("chat.memberships.readonly"), GoogleAuth("chat.messages"),
       GoogleAuth("spreadsheets.readonly"), GoogleAuth("spreadsheets"),
       GoogleAuth("forms.body"), GoogleAuth("forms.body.readonly"),
       GoogleAuth("forms.responses.readonly"),
       GoogleAuth("presentations.readonly") >>

SCOPES ==
    << GoogleAuth("userinfo.email"), "openid",
       GoogleAuth("calendar.readonly"), GoogleAuth("calendar.events"),
       GoogleAuth("drive.readonly"), GoogleAuth("drive.file"),
       GoogleAuth("gmail.readonly"), GoogleAuth("gmail.send"),
       GoogleAuth("gmail.compose"), GoogleAuth("gmail.modify"),
       GoogleAuth("gmail.labels"),
       GoogleAuth("documents.readonly"), GoogleAuth("documents"),
       GoogleAuth("chat.messages.readonly"), GoogleAuth("chat.spaces.readonly"),
       GoogleAuth("chat.memberships.readonly"), GoogleAuth("chat.messages"),
       GoogleAuth("spreadsheets.readonly"), GoogleAuth("spreadsheets"),
       GoogleAuth("forms.body"), GoogleAuth("forms.body.readonly"),
       GoogleAuth("forms.responses.readonly"),
       GoogleAuth("presentations.readonly"), GoogleAuth("presentations") >>

\* pageSize=20
PageSize == 20

\* fields="nextPageToken, files(id, name, mimeType, webViewLink)"
ListFields ==
    [top |-> {"nextPageToken", "files"},
     files |-> {"id", "name", "mimeType", "webViewLink"}]

---------------------------------------------------------------------------
\* Inputs: Authorization headers, environments, upstream outcomes

Bearer_tA == <<"B","e","a","r","e","r"," ","t","A">>
bearer_a_b == <<"b","e","a","r","e","r"," ","a"," ","b">>
BEARER_empty == <<"B","E","A","R","E","R"," ">>
Bearer_nospace == <<"B","e","a","r","e","r">>
Basic_tA == <<"B","a","s","i","c"," ","t","A">>

\* request.headers of the requests the clients send: without an
\* Authorization header, with an empty one, with a Bearer one in three letter
\* cases (one whose token holds a space, one with an empty token), with the
\* scheme alone, and with another scheme.
RequestHeaders ==
    { << >> } \cup
    { [Authorization |-> v] :
        v \in { << >>, Bearer_tA, bearer_a_b, BEARER_empty,
                Bearer_nospace, Basic_tA } }

EnvNames == {"GOOGLE_OAUTH_CLIENT_ID", "GOOGLE_OAUTH_CLIENT_SECRET"}

\* A variable of os.environ is unset, set to "", or set.
Environments ==
    UNION { [names -> { << >>, <<"x">> }] : names \in SUBSET EnvNames }

\* Headers sent with GET /health.
HealthHeaders == { << >>, [Authorization |-> Bearer_tA] }

\* The Drive account a credential opens: file i of the account of token tok,
\* as the Drive API holds it (more fields than any one request asks for).
DriveFile(tok, i) ==
    [id |-> <<tok, i>>, name |-> <<"file", i>>, mimeType |-> "text/plain",
     webViewLink |-> <<"https://drive.google.com/file/d/", tok, i>>,
     kind |-> "drive#file", size |-> i]

\* What the Drive API does with one files().list(...).execute(): it raises,
\* or it answers from an account holding `count` files; an answer with no
\* file may leave the 'files' key out.
UpstreamOutcomes ==
    { [raises |-> TRUE, message |-> "token expired"] } \cup
    { [raises |-> FALSE, count |-> n, omitFiles |-> FALSE] :
        n \in {0, 1, PageSize + 1} } \cup
    { [raises |-> FALSE, count |-> 0, omitFiles |-> TRUE] }

\* What build('drive', 'v3', ...) does: it returns the service, or raises.
BuildOutcomes ==
    { [raises |-> FALSE], [raises |-> TRUE, message |-> "unknown api"] }

Min(a, b) == IF a <= b THEN a ELSE b

\* The partial response the Drive API sends for files().list(pageSize=...,
\* fields=...): at most pageSize files, in the account's order, each cut down
\* to the fields asked for; nextPageToken when it was asked for and files
\* remain.
DriveListResponse(creds, pageSize, fields, outcome) ==
    LET n == Min(outcome.count, pageSize)
        files == [i \in 1..n |->
                    LET f == DriveFile(creds.token, i) IN
                    [k \in fields.files \cap DOMAIN f |-> f[k]]]
        keys == (IF outcome.omitFiles THEN {} ELSE {"files"} \cap fields.top)
                \cup (IF outcome.count > pageSize
                      THEN {"nextPageToken"} \cap fields.top ELSE {})
    IN [k \in keys |-> IF k = "files" THEN files ELSE <<"page", 2>>]

---------------------------------------------------------------------------
\* What a handler does: it raises an exception or returns a value.

HTTPException(status_code, detail) ==
    [status_code |-> status_code, detail |-> detail, headers |-> "None"]

Raised(exc) == [how |-> "raise", value |-> exc]
Returned(value) == [how |-> "return", value |-> value]
NoResponse == [how |-> "none"]

\* The HTTP response FastAPI sends for a handler's outcome: a raised
\* HTTPException gives its status_code and {"detail": detail}; a returned
\* value gives the route's status, 200, and the value JSON-encoded (an object
\* that is no dict is encoded by its attributes).
HttpResponse(outcome) ==
    IF outcome.how = "raise"
    THEN [status |-> outcome.value.status_code,
          body |-> [detail |-> outcome.value.detail]]
    ELSE [status |-> 200, body |-> outcome.value]

---------------------------------------------------------------------------
VARIABLES
    env,          \* os.environ
    pc,           \* pc[r]: where request r's handler stands
    request,      \* request[r].headers
    credentials,  \* list_drive_files' local `credentials` of request r
    service,      \* list_drive_files' local `service` of request r
    response,     \* how request r's handler ended
    calls,        \* calls[r]: the calls request r made to the Google client
    health        \* the last response of GET /health

vars == <<env, pc, request, credentials, service, response, calls, health>>

Credentials(token, client_id, client_secret, scopes) ==
    [token |-> token, client_id |-> client_id,
     client_secret |-> client_secret, scopes |-> scopes]

\* auth_header.split(" ", 1), every space a separator
TokenOfSplitAll(auth_header) == Index(Split(auth_header, " ", Len(auth_header)), 1)

\* token = auth_header.split(" ", 1)[1]
TokenOf(auth_header) == Index(Split(auth_header, " ", 1), 1)

\* not auth_header or not auth_header.lower().startswith("bearer ")
HeaderInvalid(auth_header) ==
    ~Truthy(auth_header) \/ ~StartsWith(Lower(auth_header.v), <<"b","e","a","r","e","r"," ">>)

\* the configuration test with `and` for `or`
ConfigMissingBoth(client_id, client_secret) ==
    ~Truthy(client_id) /\ ~Truthy(client_secret)

\* not client_id or not client_secret
ConfigMissing(client_id, client_secret) ==
    ~Truthy(client_id) \/ ~Truthy(client_secret)

\* get_credentials_from_request with the configuration read and tested first
get_credentials_config_first(headers, environ) ==
    LET auth_header == Get(headers, "Authorization")
        client_id == Get(environ, "GOOGLE_OAUTH_CLIENT_ID")
        client_secret == Get(environ, "GOOGLE_OAUTH_CLIENT_SECRET")
    IN  IF ConfigMissing(client_id, client_secret)
        THEN Raised(HTTPException(500, "Server is missing Google OAuth client configuration"))
        ELSE IF HeaderInvalid(auth_header)
        THEN Raised(HTTPException(401, "Authorization header missing or invalid"))
        ELSE Returned(Credentials(TokenOf(auth_header.v), client_id,
                                  client_secret, SCOPES))

\* get_credentials_from_request(request), with os.environ as it reads it
get_credentials_from_request(headers, environ) ==
    LET auth_header == Get(headers, "Authorization") IN
    IF HeaderInvalid(auth_header)
    THEN Raised(HTTPException(401, "Authorization header missing or invalid"))
    ELSE
        LET token == TokenOf(auth_header.v)
            client_id == Get(environ, "GOOGLE_OAUTH_CLIENT_ID")
            client_secret == Get(environ, "GOOGLE_OAUTH_CLIENT_SECRET")
        IN  IF ConfigMissing(client_id, client_secret)
            THEN Raised(HTTPException(500, "Server is missing Google OAuth client configuration"))
            ELSE Returned(Credentials(token, client_id, client_secret, SCOPES))

\* except Exception as e: return HTTPException(status_code=400, ...)
UpstreamError(message) ==
    Returned(HTTPException(400, "Error calling Google Drive API: " \o message))

\* return results, the whole upstream answer
FilesResponseWhole(results) == Returned(results)

\* files = results.get('files', []); return {"files": files}
FilesResponse(results) == Returned([files |-> GetDefault(results, "files", << >>)])

\* return {"status": "ok"} only when the OAuth configuration is present
health_check_config ==
    IF ConfigMissing(Get(env, "GOOGLE_OAUTH_CLIENT_ID"), Get(env, "GOOGLE_OAUTH_CLIENT_SECRET"))
    THEN Returned([status |-> "error"])
    ELSE Returned([status |-> "ok"])

\* health_check()
health_check == Returned([status |-> "ok"])

\* the HTTPException of get_credentials_from_request caught by
\* `except Exception` instead
ReraiseWrapped(exc) == UpstreamError(exc.detail)

\* except HTTPException as e: raise e
Reraise(exc) == Raised(exc)

---------------------------------------------------------------------------
Init ==
    /\ env \in Environments
    /\ pc = [r \in Requests |-> "new"]
    /\ request = [r \in Requests |-> << >>]
    /\ credentials = [r \in Requests |-> None]
    /\ service = [r \in Requests |-> None]
    /\ response = [r \in Requests |-> NoResponse]
    /\ calls = [r \in Requests |-> << >>]
    /\ health = None

\* POST /gdrive/list_files arrives with these headers; requests are numbered
\* in the order they arrive.
Receive(r, headers) ==
    /\ pc[r] = "new"
    /\ \A q \in Requests : q < r => pc[q] # "new"
    /\ request' = [request EXCEPT ![r] = headers]
    /\ pc' = [pc EXCEPT ![r] = "credentials"]
    /\ UNCHANGED <<env, credentials, service, response, calls, health>>

\* GetCredentials with `credentials` a module global, shared by the requests
GetCredentialsShared(r) ==
    /\ pc[r] = "credentials"
    /\ LET got == get_credentials_from_request(request[r], env) IN
       IF got.how = "raise"
       THEN /\ response' = [response EXCEPT ![r] = Reraise(got.value)]
            /\ pc' = [pc EXCEPT ![r] = "done"]
            /\ UNCHANGED credentials
       ELSE /\ credentials' = [q \in Requests |-> Some(got.value)]
            /\ pc' = [pc EXCEPT ![r] = "build"]
            /\ UNCHANGED response
    /\ UNCHANGED <<env, request, service, calls, health>>

\* credentials = get_credentials_from_request(request), and the
\* `except HTTPException` clause when it raises
GetCredentials(r) ==
    /\ pc[r] = "credentials"
    /\ LET got == get_credentials_from_request(request[r], env) IN
       IF got.how = "raise"
       THEN /\ response' = [response EXCEPT ![r] = Reraise(got.value)]
            /\ pc' = [pc EXCEPT ![r] = "done"]
            /\ UNCHANGED credentials
       ELSE /\ credentials' = [credentials EXCEPT ![r] = Some(got.value)]
            /\ pc' = [pc EXCEPT ![r] = "build"]
            /\ UNCHANGED response
    /\ UNCHANGED <<env, request, service, calls, health>>

\* service = build('drive', 'v3', credentials=credentials), and the
\* `except Exception` clause when it raises
Build(r) ==
    /\ pc[r] = "build"
    /\ \E outcome \in BuildOutcomes :
        /\ calls' = [calls EXCEPT ![r] = Append(@,
                        [op |-> "build", credentials |-> credentials[r].v,
                         outcome |-> outcome])]
        /\ IF outcome.raises
           THEN /\ response' = [response EXCEPT ![r] = UpstreamError(outcome.message)]
                /\ pc' = [pc EXCEPT ![r] = "done"]
                /\ UNCHANGED service
           ELSE /\ service' = [service EXCEPT ![r] =
                                  Some([credentials |-> credentials[r].v])]
                /\ pc' = [pc EXCEPT ![r] = "list"]
                /\ UNCHANGED response
    /\ UNCHANGED <<env, request, credentials, health>>

\* ListFiles that issues the call again when it raised
ListFilesRetry(r) ==
    /\ pc[r] = "list"
    /\ \E outcome \in UpstreamOutcomes :
        /\ calls' = [calls EXCEPT ![r] = Append(@,
                        [op |-> "list", credentials |-> service[r].v.credentials,
                         pageSize |-> PageSize, fields |-> ListFields,
                         outcome |-> outcome])]
        /\ IF outcome.raises
           THEN UNCHANGED <<response, pc>>
           ELSE /\ response' = [response EXCEPT ![r] =
                        FilesResponse(DriveListResponse(service[r].v.credentials,
                                                        PageSize, ListFields, outcome))]
                /\ pc' = [pc EXCEPT ![r] = "done"]
    /\ UNCHANGED <<env, request, credentials, service, health>>

\* results = service.files().list(pageSize=20, fields=...).execute();
\* files = results.get('files', []); return {"files": files}, and the
\* `except Exception` clause when the call raises
ListFiles(r) ==
    /\ pc[r] = "list"
    /\ \E outcome \in UpstreamOutcomes :
        /\ calls' = [calls EXCEPT ![r] = Append(@,
                        [op |-> "list", credentials |-> service[r].v.credentials,
                         pageSize |-> PageSize, fields |-> ListFields,
                         outcome |-> outcome])]
        /\ response' = [response EXCEPT ![r] =
                IF outcome.raises
                THEN UpstreamError(outcome.message)
                ELSE FilesResponse(DriveListResponse(service[r].v.credentials,
                                                     PageSize, ListFields, outcome))]
        /\ pc' = [pc EXCEPT ![r] = "done"]
    /\ UNCHANGED <<env, request, credentials, service, health>>

\* GET /health with these headers
HealthCheck(headers) ==
    /\ health' = Some(HttpResponse(health_check))
    /\ UNCHANGED <<env, pc, request, credentials, service, response, calls>>

Next ==
    \/ \E r \in Requests : \E headers \in RequestHeaders : Receive(r, headers)
    \/ \E r \in Requests : GetCredentials(r)
    \/ \E r \in Requests : Build(r)
    \/ \E r \in Requests : ListFiles(r)
    \/ \E headers \in HealthHeaders : HealthCheck(headers)

Spec == Init /\ [][Next]_vars

---------------------------------------------------------------------------
\* Vocabulary of the properties, stated without the code's own tests.

\* The letters of "Bearer " in either case, position by position.
BearerSpelling ==
    << {"B","b"}, {"E","e"}, {"A","a"}, {"R","r"}, {"E","e"}, {"R","r"}, {" "} >>

\* The request carries an Authorization header that starts with "Bearer ".
WellFormedAuth(headers) ==
    /\ "Authorization" \in DOMAIN headers
    /\ Len(headers.Authorization) >= Len(BearerSpelling)
    /\ \A i \in DOMAIN BearerSpelling : headers.Authorization[i] \in BearerSpelling[i]

\* The header's text after "Bearer ".
TextAfterBearer(headers) ==
    [i \in 1..(Len(headers.Authorization) - Len(BearerSpelling)) |->
        headers.Authorization[i + Len(BearerSpelling)]]

\* Both OAuth variables are set and not empty.
ConfigPresent ==
    \A n \in EnvNames : n \in DOMAIN env /\ env[n] # << >>

Arrived(r) == pc[r] # "new"
Done(r) == pc[r] = "done"
Http(r) == HttpResponse(response[r])
ListCalls(r) == { i \in DOMAIN calls[r] : calls[r][i].op = "list" }
LastCall(r) == calls[r][Len(calls[r])]
UpstreamRaised(r) == calls[r] # << >> /\ LastCall(r).outcome.raises
Listed(r) ==
    calls[r] # << >> /\ LastCall(r).op = "list" /\ ~LastCall(r).outcome.raises

\* C1: a request without an Authorization header that starts with "Bearer "
\* (any letter case) never makes an upstream call, and ends with the
\* extractor's HTTPException 401 raised, so the client gets 401.
C1_UnauthorizedIs401 ==
    \A r \in Requests :
        (Arrived(r) /\ ~WellFormedAuth(request[r])) =>
            /\ calls[r] = << >>
            /\ Done(r) =>
                /\ response[r] =
                      Raised(HTTPException(401, "Authorization header missing or invalid"))
                /\ Http(r).status = 401

C1_Witness ==
    \E r \in Requests :
        /\ Done(r)
        /\ request[r] = [Authorization |-> Basic_tA]
        /\ Http(r).status = 401

\* C2: a request with a well-formed Bearer header, handled while an OAuth
\* variable is unset or empty, makes no upstream call and ends with an
\* HTTPException 500 raised, so the client gets 500.
C2_MissingConfigIs500 ==
    \A r \in Requests :
        (Arrived(r) /\ WellFormedAuth(request[r]) /\ ~ConfigPresent) =>
            /\ calls[r] = << >>
            /\ Done(r) =>
                /\ response[r].how = "raise"
                /\ Http(r).status = 500

C2_Witness ==
    \E r \in Requests :
        /\ Done(r)
        /\ WellFormedAuth(request[r])
        /\ "GOOGLE_OAUTH_CLIENT_ID" \in DOMAIN env
        /\ env["GOOGLE_OAUTH_CLIENT_ID"] # << >>
        /\ "GOOGLE_OAUTH_CLIENT_SECRET" \notin DOMAIN env
        /\ Http(r).status = 500

\* C3: when the upstream call (build, list or execute) raises, the client
\* gets HTTP 400 with the body {"detail": "Error calling Google Drive API:
\* <message>"}.
C3_UpstreamErrorIs400 ==
    \A r \in Requests :
        (Done(r) /\ UpstreamRaised(r)) =>
            /\ Http(r).status = 400
            /\ Http(r).body =
                  [detail |-> "Error calling Google Drive API: "
                                  \o LastCall(r).outcome.message]

\* C4: when the upstream list call answers with N files, the client gets 200
\* and {"files": [...]} alone (no nextPageToken), with the N files in
\* upstream order, each with exactly id, name, mimeType and webViewLink; an
\* answer without a 'files' key gives an empty array.
C4_FilesProjected ==
    \A r \in Requests :
        (Done(r) /\ Listed(r)) =>
            LET outcome == LastCall(r).outcome
                N == IF outcome.omitFiles THEN 0
                     ELSE IF outcome.count <= 20 THEN outcome.count ELSE 20
            IN  /\ Http(r).status = 200
                /\ DOMAIN Http(r).body = {"files"}
                /\ Len(Http(r).body.files) = N
                /\ \A i \in 1..N :
                      /\ DOMAIN Http(r).body.files[i] =
                            {"id", "name", "mimeType", "webViewLink"}
                      /\ Http(r).body.files[i].id[2] = i

C4_Witness ==
    \E r, q \in Requests :
        /\ Done(r) /\ Listed(r)
        /\ LastCall(r).outcome.count > 20
        /\ Len(Http(r).body.files) = 20
        /\ Done(q) /\ Listed(q)
        /\ LastCall(q).outcome.omitFiles
        /\ Http(q).body = [files |-> << >>]

\* C5: every response of GET /health is 200 {"status": "ok"}, whatever the
\* headers, the environment and the state of the list_files requests, and
\* handling it changes nothing else.
C5_HealthAlwaysOk ==
    /\ [](health.isNone \/ health.v = [status |-> 200, body |-> [status |-> "ok"]])
    /\ [][health' # health =>
            UNCHANGED <<env, pc, request, credentials, service, response, calls>>]_vars

C5_Witness ==
    /\ ~health.isNone
    /\ ~ConfigPresent
    /\ \E r \in Requests : Done(r) /\ Http(r).status = 500
    /\ \E r \in Requests : pc[r] = "credentials"

\* The scope list of section 6 of the specification, as the URLs it names.
Section6Scopes ==
    LET names == << "userinfo.email", "openid", "calendar.readonly",
                    "calendar.events", "drive.readonly", "drive.file",
                    "gmail.readonly", "gmail.send", "gmail.compose",
                    "gmail.modify", "gmail.labels", "documents.readonly",
                    "documents", "chat.messages.readonly",
                    "chat.spaces.readonly", "chat.memberships.readonly",
                    "chat.messages", "spreadsheets.readonly", "spreadsheets",
                    "forms.body", "forms.body.readonly",
                    "forms.responses.readonly", "presentations.readonly",
                    "presentations" >>
    IN [i \in DOMAIN names |->
           IF names[i] = "openid" THEN names[i]
           ELSE "https://www.googleapis.com/auth/" \o names[i]]

\* C6 as stated: every credential constructed carries the list of section 6,
\* and that list has 23 entries.
C6_Scopes23 ==
    \A r \in Requests :
        ~credentials[r].isNone =>
            /\ credentials[r].v.scopes = Section6Scopes
            /\ Len(credentials[r].v.scopes) = 23

\* C6 amended: every credential constructed, and every credential passed
\* upstream, carries the list of section 6, which has 24 entries, whatever
\* the request.
C6_Scopes24 ==
    \A r \in Requests :
        /\ ~credentials[r].isNone =>
              /\ credentials[r].v.scopes = Section6Scopes
              /\ Len(credentials[r].v.scopes) = 24
        /\ \A i \in DOMAIN calls[r] :
              calls[r][i].credentials.scopes = Section6Scopes

C6_Witness ==
    \E r, q \in Requests :
        /\ ~credentials[r].isNone /\ ~credentials[q].isNone
        /\ credentials[r].v.token # credentials[q].v.token
        /\ calls[r] # << >>

\* C7: a request makes at most one upstream list call, and once it has made
\* it, the request is over, whether the call raised or answered.
C7_AtMostOneListCall ==
    \A r \in Requests :
        /\ Cardinality(ListCalls(r)) <= 1
        /\ ListCalls(r) # {} => Done(r)

C7_Witness ==
    \E r \in Requests :
        /\ Done(r) /\ UpstreamRaised(r) /\ LastCall(r).op = "list"
        /\ Cardinality(ListCalls(r)) = 1

\* C8: under any interleaving, every credential a request passes upstream
\* carries that request's own token, and the request's outcome is the one its
\* own header, the environment and its own upstream outcome give: 401, 500,
\* the returned upstream error, or the files of its own token's account.
C8_RequestsIndependent ==
    \A r \in Requests :
        /\ \A i \in DOMAIN calls[r] :
              /\ WellFormedAuth(request[r])
              /\ calls[r][i].credentials.token = TextAfterBearer(request[r])
        /\ Done(r) =>
              IF ~WellFormedAuth(request[r]) THEN Http(r).status = 401
              ELSE IF ~ConfigPresent THEN Http(r).status = 500
              ELSE IF UpstreamRaised(r)
                   THEN /\ response[r].how = "return"
                        /\ response[r].value.detail =
                              "Error calling Google Drive API: "
                                  \o LastCall(r).outcome.message
              ELSE /\ Listed(r)
                   /\ response[r].how = "return"
                   /\ \A i \in DOMAIN response[r].value.files :
                         response[r].value.files[i].id =
                             <<TextAfterBearer(request[r]), i>>

C8_Witness ==
    \E r, q \in Requests :
        /\ Done(r) /\ Done(q)
        /\ Listed(r) /\ Listed(q)
        /\ request[r] = [Authorization |-> Bearer_tA]
        /\ request[q] = [Authorization |-> bearer_a_b]
        /\ Len(response[r].value.files) = 1
        /\ Len(response[q].value.files) = 1

\* C9: with a header that starts with "Bearer " in any letter case and the
\* configuration present, extraction succeeds for every token, the empty one
\* included; the credential's token is the header's text after the first
\* space, unchanged; and the request ends only after an upstream call that
\* carried it, never with 401 or 500.
C9_TokenPassedThrough ==
    \A r \in Requests :
        (WellFormedAuth(request[r]) /\ ConfigPresent
            /\ pc[r] \in {"build", "list", "done"}) =>
            /\ ~credentials[r].isNone
            /\ credentials[r].v.token = TextAfterBearer(request[r])
            /\ Done(r) =>
                /\ calls[r] # << >>
                /\ calls[r][1].op = "build"
                /\ calls[r][1].credentials.token = TextAfterBearer(request[r])
                /\ Http(r).status \notin {401, 500}

C9_Witness ==
    \E r, q \in Requests :
        /\ Done(r) /\ Done(q)
        /\ request[r] = [Authorization |-> BEARER_empty]
        /\ request[q] = [Authorization |-> bearer_a_b]
        /\ ListCalls(r) # {} /\ ListCalls(q) # {}
        /\ credentials[r].v.token = << >>
        /\ credentials[q].v.token = <<"a", " ", "b">>

\* C10: the header is tested before the configuration: a request without a
\* well-formed Bearer header handled while the configuration is missing gets
\* 401, and only a request with a well-formed Bearer header ever gets 500.
C10_HeaderBeforeConfig ==
    \A r \in Requests :
        Done(r) =>
            /\ (~WellFormedAuth(request[r]) /\ ~ConfigPresent) => Http(r).status = 401
            /\ Http(r).status = 500 => WellFormedAuth(request[r])

C10_Witness ==
    \E r, q \in Requests :
        /\ Done(r) /\ Done(q)
        /\ ~ConfigPresent
        /\ ~WellFormedAuth(request[r]) /\ Http(r).status = 401
        /\ WellFormedAuth(request[q]) /\ Http(q).status = 500

=============================================================================
